---- MODULE Spec2Model ----
(***************************************************************************)
(* ProfileService (src/app/main.py): six HTTP endpoints, each gated by     *)
(* verify_credentials and executing one stored procedure through pyodbc.   *)
(*                                                                         *)
(* A text (backend error text, response detail) is a sequence of tokens.   *)
(* Backend error texts are sequences of words; every literal the service   *)
(* puts in a response is a single token, so text taken from the backend    *)
(* can be told from the service's own constants.                           *)
(* One request is in flight at a time: the handlers share no state but     *)
(* the store.                                                              *)
(***************************************************************************)
EXTENDS Integers, Sequences, FiniteSets, TLC

VARIABLES pc, endpoint, user_id, email, authResponse, current_user,
          conn, cursor, connCount, execCount, result, outcome, resp,
          users, deleted

vars == <<pc, endpoint, user_id, email, authResponse, current_user,
          conn, cursor, connCount, execCount, result, outcome, resp,
          users, deleted>>

\* ------------------------------------------------------------------ bounds
\* longest backend error text, counted in fragments
MaxFrags == 2
\* user ids are 1..MaxUserId
MaxUserId == 2
\* longest JSON list the authentication endpoint answers with
MaxBodyLen == 3

\* ------------------------------------------------------------------ values
None == [type |-> "None"]

Ids == 1..MaxUserId

Emails == {"grace@plymouth.ac.uk", "ada@plymouth.ac.uk"}

Endpoints == {"create_user", "read_user", "update_user", "delete_user",
              "create_user_preferences", "update_user_preferences"}

\* the handlers whose except clause calls validation_checking
Mutating == {"create_user", "update_user",
             "create_user_preferences", "update_user_preferences"}

HTTPException(code, detail) ==
    [type |-> "HTTPException", status_code |-> code, detail |-> detail]

Return(value) == [type |-> "return", value |-> value]

\* an exception no handler of the service catches
Raise(exctype) == [type |-> "raise", exc |-> exctype]

\* ------------------------------------------------------------------- texts
\* the substrings validation_checking, read_user and delete_user look for
USER_NOT_FOUND == <<"user", "not", "found">>
NEW_ACTIVITY_NOT_FOUND == <<"new", "activity", "not", "found">>
OLD_ACTIVITY_NOT_FOUND == <<"old", "activity", "not", "found">>
ACTIVITY_NOT_FOUND == <<"activity", "not", "found">>
ACTIVITY_EXISTS == <<"activity", "already", "exists", "for", "this", "user">>
OLD_ACTIVITY_FOR_USER ==
    <<"old", "activity", "not", "found", "for", "this", "user">>
EMAIL_EXISTS == <<"email", "already", "exists">>
USERNAME_EXISTS == <<"username", "already", "exists">>
DATE_OF_BIRTH == <<"date_of_birth">>
PHONE_NUMBER == <<"phone_number">>

Markers == <<USER_NOT_FOUND, NEW_ACTIVITY_NOT_FOUND, OLD_ACTIVITY_NOT_FOUND,
             ACTIVITY_NOT_FOUND, ACTIVITY_EXISTS, OLD_ACTIVITY_FOR_USER,
             EMAIL_EXISTS, USERNAME_EXISTS, DATE_OF_BIRTH, PHONE_NUMBER>>

\* words the backend writes with a capital, and their lower-case form
CapPairs == {<<"User", "user">>, <<"New", "new">>, <<"Old", "old">>,
             <<"Activity", "activity">>, <<"Email", "email">>,
             <<"Username", "username">>, <<"Date_Of_Birth", "date_of_birth">>,
             <<"Phone_Number", "phone_number">>, <<"Violation", "violation">>,
             <<"Not", "not">>}

lowerWord(w) ==
    IF \E p \in CapPairs : p[1] = w
    THEN (CHOOSE p \in CapPairs : p[1] = w)[2]
    ELSE w

upperWord(w) ==
    IF \E p \in CapPairs : p[2] = w
    THEN (CHOOSE p \in CapPairs : p[2] = w)[1]
    ELSE w

\* str.lower()
lower(s) == [i \in 1..Len(s) |-> lowerWord(s[i])]

\* the text with its first word capitalised, as the backend writes it
Cap(s) == IF s = <<>> THEN s ELSE [s EXCEPT ![1] = upperWord(s[1])]

\* Python's `sub in s`
Contains(sub, s) ==
    \E i \in 0..(Len(s) - Len(sub)) :
        \A j \in 1..Len(sub) : s[i + j] = sub[j]

\* fragments backend error texts are made of: the ten markers, a word that
\* matches nothing, and a tail that can complete a marker across fragments
Frags == {Markers[k] : k \in 1..Len(Markers)}
            \cup {<<"violation">>, <<"not", "found">>}

RECURSIVE Flatten(_, _)
Flatten(fs, caps) ==
    IF fs = <<>> THEN <<>>
    ELSE (IF caps THEN Cap(Head(fs)) ELSE Head(fs)) \o Flatten(Tail(fs), caps)

FragSeqs == UNION {[1..n -> Frags] : n \in 0..MaxFrags}

\* every text a pyodbc.Error may carry
RawMessages == {Flatten(fs, caps) : fs \in FragSeqs, caps \in BOOLEAN}

\* ---------------------------------------------------------- authentication
\* what requests.post(AUTH_API_URL, ...) produces: a transport failure
\* (timeout, connection error) or a response with a status and a body
StatusCodes == {200, 401, 500}

BodyTokens == {"Verified", "True", "False"}

\* a body is a JSON list of strings, some other JSON value, or not JSON
Bodies ==
    {[json |-> "list", items |-> l] :
        l \in UNION {[1..n -> BodyTokens] : n \in 0..MaxBodyLen}}
    \cup {[json |-> "object", items |-> <<>>],
          [json |-> "invalid", items |-> <<>>]}

\* no call to the authentication endpoint is in progress
NoResponse ==
    [kind |-> "none", status_code |-> 0,
     body |-> [json |-> "invalid", items |-> <<>>]]

AuthOutcomes ==
    {[kind |-> "RequestException", status_code |-> 0,
      body |-> [json |-> "invalid", items |-> <<>>]]}
    \cup {[kind |-> "response", status_code |-> s, body |-> b] :
            s \in StatusCodes, b \in Bodies}

\* what response.json() raises on a body that is not JSON depends on the
\* installed requests: requests.exceptions.JSONDecodeError, a
\* RequestException, from 2.27 on, a plain ValueError before
JsonErrors == {"RequestException", "ValueError"}

Principal(e) == [type |-> "principal", email |-> e, authenticated |-> TRUE]

\* a verifier that takes a transport failure for a rejection
verify_credentials_no503(e, r, jsonError) ==
    IF r.kind = "response" /\ r.status_code = 200 /\ r.body.json = "list"
       /\ Len(r.body.items) >= 2
       /\ r.body.items[1] = "Verified" /\ r.body.items[2] = "True"
    THEN Principal(e)
    ELSE HTTPException(401, <<"Authentication failed">>)

verify_credentials(e, r, jsonError) ==
    IF r.kind = "RequestException"
    THEN HTTPException(503, <<"Authentication service unavailable">>)
    ELSE IF r.status_code = 200
    THEN IF r.body.json = "invalid"
         THEN IF jsonError = "RequestException"
              THEN HTTPException(503, <<"Authentication service unavailable">>)
              ELSE Raise("ValueError")
         ELSE IF r.body.json = "list" /\ Len(r.body.items) >= 2
                 /\ r.body.items[1] = "Verified" /\ r.body.items[2] = "True"
         THEN Principal(e)
         ELSE HTTPException(401, <<"Invalid credentials">>)
    ELSE HTTPException(401, <<"Authentication failed">>)

\* a handler that runs its body whatever the dependency did
HandlerEntryUngated(out) == "handler"

\* Depends(verify_credentials): the handler body runs only when the
\* dependency returned; an exception of the dependency ends the request
HandlerEntry(out) == IF out.type = "principal" THEN "handler" ELSE "done"

\* ---------------------------------------------------------- classification
\* a classifier whose last branch passes the backend text on
validation_checking_leak(msg) ==
    IF Contains(USER_NOT_FOUND, msg)
    THEN HTTPException(404, <<"User not found">>)
    ELSE IF Contains(NEW_ACTIVITY_NOT_FOUND, msg)
    THEN HTTPException(404, <<"New Activity not found">>)
    ELSE IF Contains(OLD_ACTIVITY_NOT_FOUND, msg)
    THEN HTTPException(404, <<"Old Activity not found for this user">>)
    ELSE IF Contains(ACTIVITY_NOT_FOUND, msg)
    THEN HTTPException(404, <<"Activity not found">>)
    ELSE IF Contains(ACTIVITY_EXISTS, msg)
    THEN HTTPException(409, <<"Activity already exists for this user.">>)
    ELSE IF Contains(OLD_ACTIVITY_FOR_USER, msg)
    THEN HTTPException(409, <<"Old activity not found for this user.">>)
    ELSE IF Contains(EMAIL_EXISTS, msg)
    THEN HTTPException(409, <<"Email already exists.">>)
    ELSE IF Contains(USERNAME_EXISTS, msg)
    THEN HTTPException(409, <<"Username already exists">>)
    ELSE IF Contains(DATE_OF_BIRTH, msg)
    THEN HTTPException(409,
            <<"Invalid date of birth, must be at least 13 years old.">>)
    ELSE IF Contains(PHONE_NUMBER, msg)
    THEN HTTPException(409,
            <<"Invalid phone number format, the number must start with +.">>)
    ELSE HTTPException(500, msg)

\* validation_checking always raises; its value here is what it raises
validation_checking(msg) ==
    IF Contains(USER_NOT_FOUND, msg)
    THEN HTTPException(404, <<"User not found">>)
    ELSE IF Contains(NEW_ACTIVITY_NOT_FOUND, msg)
    THEN HTTPException(404, <<"New Activity not found">>)
    ELSE IF Contains(OLD_ACTIVITY_NOT_FOUND, msg)
    THEN HTTPException(404, <<"Old Activity not found for this user">>)
    ELSE IF Contains(ACTIVITY_NOT_FOUND, msg)
    THEN HTTPException(404, <<"Activity not found">>)
    ELSE IF Contains(ACTIVITY_EXISTS, msg)
    THEN HTTPException(409, <<"Activity already exists for this user.">>)
    ELSE IF Contains(OLD_ACTIVITY_FOR_USER, msg)
    THEN HTTPException(409, <<"Old activity not found for this user.">>)
    ELSE IF Contains(EMAIL_EXISTS, msg)
    THEN HTTPException(409, <<"Email already exists.">>)
    ELSE IF Contains(USERNAME_EXISTS, msg)
    THEN HTTPException(409, <<"Username already exists">>)
    ELSE IF Contains(DATE_OF_BIRTH, msg)
    THEN HTTPException(409,
            <<"Invalid date of birth, must be at least 13 years old.">>)
    ELSE IF Contains(PHONE_NUMBER, msg)
    THEN HTTPException(409,
            <<"Invalid phone number format, the number must start with +.">>)
    ELSE HTTPException(500, <<"Internal server error">>)

\* the except clause of create_user, update_user, create_user_preferences
\* and update_user_preferences: msg = str(e).lower(); validation_checking(msg)
mutating_except(text) == validation_checking(lower(text))

\* a read_user that hands its errors to validation_checking
read_user_except_shared(text) == validation_checking(lower(text))

\* the except clause of read_user
read_user_except(text) ==
    IF Contains(USER_NOT_FOUND, lower(text))
    THEN HTTPException(404, <<"User not found">>)
    ELSE HTTPException(500, <<"Failed to retrieve user profile">>)

\* a delete_user that matches the text as the backend wrote it
delete_user_except_raw(text) ==
    IF Contains(USER_NOT_FOUND, text)
    THEN HTTPException(404, <<"User not found">>)
    ELSE HTTPException(500, <<"Failed to delete user profile">>)

\* the except clause of delete_user
delete_user_except(text) ==
    IF Contains(USER_NOT_FOUND, lower(text))
    THEN HTTPException(404, <<"User not found">>)
    ELSE HTTPException(500, <<"Failed to delete user profile">>)

\* what the except clause of each handler raises for a pyodbc.Error
handler_except(ep, text) ==
    CASE ep = "read_user" -> read_user_except(text)
      [] ep = "delete_user" -> delete_user_except(text)
      [] OTHER -> mutating_except(text)

\* the value a handler returns when cursor.execute raised nothing
SuccessMessage(ep) ==
    CASE ep = "create_user" -> <<"User created successfully">>
      [] ep = "update_user" -> <<"User updated successfully">>
      [] ep = "delete_user" -> <<"User deleted successfully">>
      [] ep = "create_user_preferences" ->
            <<"User Preferences created successfully">>
      [] ep = "update_user_preferences" ->
            <<"User Preferences updated successfully">>
      [] OTHER -> <<"user_data">>

\* the try block after cursor.execute returned: read_user builds the row
\* mapping, and dict(zip(columns, None)) raises TypeError when fetchone()
\* found no row; the others return their message
try_body(ep, o) ==
    IF ep = "read_user" /\ o.type = "empty"
    THEN Raise("TypeError")
    ELSE Return(SuccessMessage(ep))

\* the response the framework sends for what the request ended with
Respond(out) ==
    CASE out.type = "return" -> [status |-> 200, detail |-> out.value]
      [] out.type = "HTTPException" ->
            [status |-> out.status_code, detail |-> out.detail]
      [] OTHER -> [status |-> 500, detail |-> <<"Internal Server Error">>]

\* ------------------------------------------------------------- the backend
Ok == [type |-> "ok", text |-> <<>>]

Row == [type |-> "row", text |-> <<>>]

Empty == [type |-> "empty", text |-> <<>>]

Error(text) == [type |-> "error", text |-> text]

\* what cursor.execute (and, in read_user, cursor.fetchone) may produce when
\* nothing is assumed about the stored procedures: no error, a row or no
\* row for a read, or a pyodbc.Error carrying any text
BackendOutcomes(ep) ==
    (IF ep = "read_user" THEN {Row, Empty} ELSE {Ok})
    \cup {Error(m) : m \in RawMessages}

\* the texts the store raises for a condition: the condition's wording
\* as the server writes it, bare or behind the driver's prefix
StoreTexts(marker) == {Cap(marker), <<"Violation">> \o Cap(marker)}

StoreErrors(markers) ==
    {Error(t) : t \in UNION {StoreTexts(m) : m \in markers}}

\* the stored procedures CW2.Create_User, Read_User, Update_User,
\* Delete_User, Add_User_Activity and Update_User_Activity: each outcome
\* with the profiles the store holds afterwards
Store(ep, id, us) ==
    CASE ep = "create_user" ->
            {[out |-> Ok, users |-> us \cup {n}] : n \in Ids \ us}
            \cup {[out |-> e, users |-> us] :
                    e \in StoreErrors({EMAIL_EXISTS, USERNAME_EXISTS,
                                       DATE_OF_BIRTH, PHONE_NUMBER})}
      [] id \notin us ->
            {[out |-> e, users |-> us] : e \in StoreErrors({USER_NOT_FOUND})}
      [] ep = "read_user" -> {[out |-> Row, users |-> us]}
      [] ep = "delete_user" -> {[out |-> Ok, users |-> us \ {id}]}
      [] ep = "update_user" ->
            {[out |-> Ok, users |-> us]}
            \cup {[out |-> e, users |-> us] :
                    e \in StoreErrors({EMAIL_EXISTS, USERNAME_EXISTS,
                                       DATE_OF_BIRTH, PHONE_NUMBER})}
      [] ep = "create_user_preferences" ->
            {[out |-> Ok, users |-> us]}
            \cup {[out |-> e, users |-> us] :
                    e \in StoreErrors({ACTIVITY_NOT_FOUND, ACTIVITY_EXISTS})}
      [] OTHER ->
            {[out |-> Ok, users |-> us]}
            \cup {[out |-> e, users |-> us] :
                    e \in StoreErrors({NEW_ACTIVITY_NOT_FOUND,
                                       OLD_ACTIVITY_FOR_USER})}

\* get_db_connection: the connection, or 503 when pyodbc.connect raises
get_db_connection(ok) ==
    IF ok THEN Return(<<"conn">>)
    ELSE HTTPException(503, <<"Database connection failed">>)

\* ------------------------------------------------------------ the requests
Init ==
    /\ pc = "idle"
    /\ endpoint = "none"
    /\ user_id = 0
    /\ email = "none"
    /\ authResponse = NoResponse
    /\ current_user = None
    /\ conn = "none"
    /\ cursor = "none"
    /\ connCount = 0
    /\ execCount = 0
    /\ result = None
    /\ outcome = None
    /\ resp = None
    /\ users = {}
    /\ deleted = {}

\* a request arrives with Basic credentials; create_user has no id in its path
Receive ==
    /\ pc = "idle"
    /\ \E ep \in Endpoints, e \in Emails :
         \E id \in (IF ep = "create_user" THEN {0} ELSE Ids) :
            /\ endpoint' = ep
            /\ user_id' = id
            /\ email' = e
    /\ pc' = "verify"
    /\ UNCHANGED <<authResponse, current_user, conn, cursor, connCount,
                   execCount, result, outcome, resp, users, deleted>>

\* verify_credentials: requests.post to the authentication endpoint
CallAuth ==
    /\ pc = "verify"
    /\ \E r \in AuthOutcomes : authResponse' = r
    /\ pc' = "check"
    /\ UNCHANGED <<endpoint, user_id, email, current_user, conn, cursor,
                   connCount, execCount, result, outcome, resp, users, deleted>>

\* verify_credentials: the answer is examined; the handler is entered or
\* the request ends with what the dependency raised
CheckAuth ==
    /\ pc = "check"
    /\ \E jsonError \in JsonErrors :
         LET out == verify_credentials(email, authResponse, jsonError) IN
            /\ pc' = HandlerEntry(out)
            /\ current_user' = IF out.type = "principal" THEN out ELSE None
            /\ outcome' = IF out.type = "principal" THEN None ELSE out
            /\ resp' = IF HandlerEntry(out) = "done" THEN Respond(out) ELSE None
    /\ UNCHANGED <<endpoint, user_id, email, authResponse, conn, cursor,
                   connCount, execCount, result, users, deleted>>

\* the handler body starts; the dependency's locals are gone
EnterHandler ==
    /\ pc = "handler"
    /\ authResponse' = NoResponse
    /\ pc' = "connect"
    /\ UNCHANGED <<endpoint, user_id, email, current_user, conn, cursor,
                   connCount, execCount, result, outcome, resp, users, deleted>>

\* conn = get_db_connection()
Connect ==
    /\ pc = "connect"
    /\ \E ok \in BOOLEAN :
         LET c == get_db_connection(ok) IN
            IF c.type = "return"
            THEN /\ conn' = "open"
                 /\ connCount' = connCount + 1
                 /\ pc' = "cursor"
                 /\ UNCHANGED <<outcome, resp>>
            ELSE /\ outcome' = c
                 /\ resp' = Respond(c)
                 /\ pc' = "done"
                 /\ UNCHANGED <<conn, connCount>>
    /\ UNCHANGED <<endpoint, user_id, email, authResponse, current_user,
                   cursor, execCount, result, users, deleted>>

\* cursor = conn.cursor(), before the try: a pyodbc.Error here leaves the
\* handler with no except and no finally
OpenCursor ==
    /\ pc = "cursor"
    /\ \E ok \in BOOLEAN :
         IF ok
         THEN /\ cursor' = "open"
              /\ pc' = "execute"
              /\ UNCHANGED <<outcome, resp>>
         ELSE /\ outcome' = Raise("pyodbc.Error")
              /\ resp' = Respond(Raise("pyodbc.Error"))
              /\ pc' = "done"
              /\ UNCHANGED cursor
    /\ UNCHANGED <<endpoint, user_id, email, authResponse, current_user,
                   conn, connCount, execCount, result, users, deleted>>

\* the try block: cursor.execute and what follows it, with backend outcome o
Executed(o) ==
    /\ execCount' = execCount + 1
    /\ result' = o
    /\ IF o.type = "error"
       THEN pc' = "except" /\ UNCHANGED outcome
       ELSE pc' = "finally" /\ outcome' = try_body(endpoint, o)
    /\ UNCHANGED <<endpoint, user_id, email, authResponse, current_user,
                   conn, cursor, connCount, resp>>

\* cursor.execute against a backend about which nothing is assumed
Execute ==
    /\ pc = "execute"
    /\ \E o \in BackendOutcomes(endpoint) : Executed(o)
    /\ UNCHANGED <<users, deleted>>

\* cursor.execute against the stored procedures
ExecuteStore ==
    /\ pc = "execute"
    /\ \E s \in Store(endpoint, user_id, users) :
            /\ Executed(s.out)
            /\ users' = s.users
            /\ deleted' = deleted \ (s.users \ users)

\* except pyodbc.Error: create_user rolls back first, and a rollback that
\* raises replaces the error; then the handler raises its classification
Except ==
    /\ pc = "except"
    /\ \E rollbackOk \in (IF endpoint = "create_user" THEN BOOLEAN ELSE {TRUE}) :
         outcome' = IF rollbackOk
                    THEN handler_except(endpoint, result.text)
                    ELSE Raise("pyodbc.Error")
    /\ pc' = "finally"
    /\ UNCHANGED <<endpoint, user_id, email, authResponse, current_user,
                   conn, cursor, connCount, execCount, result, resp,
                   users, deleted>>

\* finally: cursor.close(); when it raises, conn.close() is not reached
FinallyCursor ==
    /\ pc = "finally"
    /\ \E ok \in BOOLEAN :
         IF ok
         THEN /\ cursor' = "closed"
              /\ pc' = "finally_conn"
              /\ UNCHANGED <<outcome, resp>>
         ELSE /\ outcome' = Raise("pyodbc.Error")
              /\ resp' = Respond(Raise("pyodbc.Error"))
              /\ pc' = "done"
              /\ UNCHANGED cursor
    /\ UNCHANGED <<endpoint, user_id, email, authResponse, current_user,
                   conn, connCount, execCount, result, users, deleted>>

\* finally: conn.close(); the request ends with what was returned or raised
FinallyConn ==
    /\ pc = "finally_conn"
    /\ conn' = "closed"
    /\ resp' = Respond(outcome)
    /\ pc' = "done"
    /\ UNCHANGED <<endpoint, user_id, email, authResponse, current_user,
                   cursor, connCount, execCount, result, outcome,
                   users, deleted>>

\* the response is sent and nothing of the request is kept
Forget ==
    /\ pc = "done"
    /\ pc' = "idle"
    /\ endpoint' = "none"
    /\ user_id' = 0
    /\ email' = "none"
    /\ authResponse' = NoResponse
    /\ current_user' = None
    /\ conn' = "none"
    /\ cursor' = "none"
    /\ connCount' = 0
    /\ execCount' = 0
    /\ result' = None
    /\ outcome' = None
    /\ resp' = None

Finish ==
    /\ Forget
    /\ UNCHANGED <<users, deleted>>

\* as Finish, recording the ids whose deletion was answered with 200
FinishStore ==
    /\ Forget
    /\ deleted' = IF endpoint = "delete_user" /\ resp.status = 200
                  THEN deleted \cup {user_id}
                  ELSE deleted
    /\ UNCHANGED users

Next ==
    \/ Receive
    \/ CallAuth
    \/ CheckAuth
    \/ EnterHandler
    \/ Connect
    \/ OpenCursor
    \/ Execute
    \/ Except
    \/ FinallyCursor
    \/ FinallyConn
    \/ Finish

Spec == Init /\ [][Next]_vars

NextStore ==
    \/ Receive
    \/ CallAuth
    \/ CheckAuth
    \/ EnterHandler
    \/ Connect
    \/ OpenCursor
    \/ ExecuteStore
    \/ Except
    \/ FinallyCursor
    \/ FinallyConn
    \/ FinishStore

SpecStore == Init /\ [][NextStore]_vars

\* ------------------------------------------------------------------ claims
NotFound == [status |-> 404, detail |-> <<"User not found">>]

\* a driver call of the handler itself (conn.cursor, conn.rollback,
\* cursor.close) raised
DriverFault == outcome.type = "raise" /\ outcome.exc = "pyodbc.Error"

\* the except clause of a handler raised its classification of a backend error
Classified(eps) ==
    /\ endpoint \in eps
    /\ result.type = "error"
    /\ outcome.type = "HTTPException"

\* C1: in create_user, update_user, create_user_preferences and
\* update_user_preferences, a backend error whose text contains "old activity
\* not found for this user" (and neither of the two substrings the priority
\* order puts before it) is classified 409 "Old activity not found for this
\* user.", never 404.
C1_OldActivityConflict ==
    (/\ Classified(Mutating)
     /\ Contains(OLD_ACTIVITY_FOR_USER, lower(result.text))
     /\ ~Contains(USER_NOT_FOUND, lower(result.text))
     /\ ~Contains(NEW_ACTIVITY_NOT_FOUND, lower(result.text)))
    => outcome = HTTPException(409, <<"Old activity not found for this user.">>)

\* the priority order and the status and message of each kind, as specified
SpecPriority ==
    << [sub |-> USER_NOT_FOUND, status |-> 404,
        detail |-> <<"User not found">>],
       [sub |-> NEW_ACTIVITY_NOT_FOUND, status |-> 404,
        detail |-> <<"New Activity not found">>],
       [sub |-> OLD_ACTIVITY_FOR_USER, status |-> 409,
        detail |-> <<"Old activity not found for this user.">>],
       [sub |-> OLD_ACTIVITY_NOT_FOUND, status |-> 404,
        detail |-> <<"Old Activity not found for this user">>],
       [sub |-> ACTIVITY_NOT_FOUND, status |-> 404,
        detail |-> <<"Activity not found">>],
       [sub |-> ACTIVITY_EXISTS, status |-> 409,
        detail |-> <<"Activity already exists for this user.">>],
       [sub |-> EMAIL_EXISTS, status |-> 409,
        detail |-> <<"Email already exists.">>],
       [sub |-> USERNAME_EXISTS, status |-> 409,
        detail |-> <<"Username already exists">>],
       [sub |-> DATE_OF_BIRTH, status |-> 409,
        detail |-> <<"Invalid date of birth, must be at least 13 years old.">>],
       [sub |-> PHONE_NUMBER, status |-> 409,
        detail |->
          <<"Invalid phone number format, the number must start with +.">>] >>

FirstMatch(msg) ==
    LET hits == {i \in 1..Len(SpecPriority) : Contains(SpecPriority[i].sub, msg)}
    IN  IF hits = {} THEN 0 ELSE CHOOSE i \in hits : \A j \in hits : i <= j

Expected(msg) ==
    IF FirstMatch(msg) = 0
    THEN HTTPException(500, <<"Internal server error">>)
    ELSE HTTPException(SpecPriority[FirstMatch(msg)].status,
                       SpecPriority[FirstMatch(msg)].detail)

\* C2: in the four handlers that call validation_checking, the status and
\* detail raised for a backend error are those of the first entry of the
\* specified priority order whose substring occurs in the lower-cased text,
\* and 500 "Internal server error" when none occurs.
C2_PriorityOrder ==
    Classified(Mutating) => outcome = Expected(lower(result.text))

\* C3: no connection is opened, no cursor created and no stored procedure
\* executed before verify_credentials has returned a principal, and a request
\* answered 401 has opened no connection and made no backend invocation.
C3_AuthBeforeBackend ==
    /\ (connCount > 0 \/ execCount > 0 \/ conn # "none" \/ cursor # "none")
            => current_user.type = "principal"
    /\ (pc = "done" /\ resp.status = 401) => (connCount = 0 /\ execCount = 0)

C3_Rejected ==
    /\ pc = "done"
    /\ authResponse.kind = "response"
    /\ resp.status = 401
    /\ connCount = 0
    /\ execCount = 0

VerifiedTrue(r) ==
    /\ r.kind = "response"
    /\ r.status_code = 200
    /\ r.body.json = "list"
    /\ r.body.items = <<"Verified", "True">>

\* C4: verify_credentials returns a principal exactly when the answer has
\* status 200 and its body is the two-element list ["Verified", "True"];
\* every other answer with status 200 ends the request with 401.
C4_ExactlyVerifiedTrue ==
    /\ pc = "handler" => VerifiedTrue(authResponse)
    /\ (/\ pc = "done"
        /\ authResponse.kind = "response"
        /\ authResponse.status_code = 200)
            => (~VerifiedTrue(authResponse) /\ resp.status = 401)

\* C5: a transport failure of the call to the authentication endpoint ends
\* the request with 503 "Authentication service unavailable", and an answer
\* with a status other than 200 ends it with 401.
C5_TransportIs503 ==
    /\ (pc = "done" /\ authResponse.kind = "RequestException")
            => resp = [status |-> 503,
                       detail |-> <<"Authentication service unavailable">>]
    /\ (/\ pc = "done"
        /\ authResponse.kind = "response"
        /\ authResponse.status_code # 200)
            => resp.status = 401

C5_TimedOut ==
    /\ pc = "done"
    /\ authResponse.kind = "RequestException"
    /\ resp.status = 503

\* C6: when a request ends, a connection get_db_connection returned to its
\* handler has been closed.
C6_ConnectionReleased ==
    (pc = "done" /\ connCount > 0) => conn = "closed"

\* the backend told read_user that no profile has the id
ReportedAbsent ==
    \/ result.type = "empty"
    \/ /\ result.type = "error"
       /\ Contains(USER_NOT_FOUND, lower(result.text))

\* C7: read_user answers 404 "User not found" when the backend reports that
\* the id has no row, be it by an error containing "user not found" or by a
\* result with no row (driver calls of the handler not failing).
C7_ReadAbsentIs404 ==
    (/\ pc = "done"
     /\ endpoint = "read_user"
     /\ ReportedAbsent
     /\ ~DriverFault)
    => resp = NotFound

\* a backend error of read_user or delete_user that is not "user not found"
OtherError ==
    /\ pc = "done"
    /\ endpoint \in {"read_user", "delete_user"}
    /\ result.type = "error"
    /\ ~Contains(USER_NOT_FOUND, lower(result.text))

\* C8 as stated: read_user and delete_user answer a backend error that does
\* not contain "user not found" with 500 "Internal server error", the message
\* the other four endpoints use.
C8_SingleInternalMessage ==
    (OtherError /\ outcome.type = "HTTPException")
        => resp = [status |-> 500, detail |-> <<"Internal server error">>]

\* C8: read_user and delete_user answer a backend error that does not
\* contain "user not found" with status 500; the detail is the endpoint's own
\* message, "Failed to retrieve user profile" or "Failed to delete user
\* profile", and the framework's "Internal Server Error" when cursor.close
\* raises; it is never the "Internal server error" of the other endpoints.
C8_EndpointMessages ==
    OtherError =>
        /\ resp.status = 500
        /\ resp.detail =
             IF DriverFault THEN <<"Internal Server Error">>
             ELSE IF endpoint = "read_user"
             THEN <<"Failed to retrieve user profile">>
             ELSE <<"Failed to delete user profile">>

C8_ReadFailed ==
    /\ OtherError
    /\ endpoint = "read_user"
    /\ resp = [status |-> 500, detail |-> <<"Failed to retrieve user profile">>]

\* every detail the service or the framework writes into a response
FixedDetails ==
    { <<"User not found">>, <<"New Activity not found">>,
      <<"Old Activity not found for this user">>, <<"Activity not found">>,
      <<"Activity already exists for this user.">>,
      <<"Old activity not found for this user.">>,
      <<"Email already exists.">>, <<"Username already exists">>,
      <<"Invalid date of birth, must be at least 13 years old.">>,
      <<"Invalid phone number format, the number must start with +.">>,
      <<"Internal server error">>, <<"Failed to retrieve user profile">>,
      <<"Failed to delete user profile">>, <<"Internal Server Error">> }

\* which of the ten classifying substrings a lower-cased text contains
MarkerSet(msg) ==
    << Contains(Markers[1], msg), Contains(Markers[2], msg),
       Contains(Markers[3], msg), Contains(Markers[4], msg),
       Contains(Markers[5], msg), Contains(Markers[6], msg),
       Contains(Markers[7], msg), Contains(Markers[8], msg),
       Contains(Markers[9], msg), Contains(Markers[10], msg) >>

\* for each endpoint, every pair of the substrings a backend text contains
\* and the response the endpoint gives to an error with that text
ResponsesBySignature ==
    {<<ep, MarkerSet(lower(m)), Respond(handler_except(ep, m))>> :
        ep \in Endpoints, m \in RawMessages}

\* C9: the detail answered to a backend error is one of a fixed set of
\* constants, and at one endpoint any two backend texts that contain the same
\* classifying substrings are answered identically: nothing else of the
\* text reaches the response.
C9_NoRawText ==
    (pc = "done" /\ result.type = "error") =>
        /\ resp.detail \in FixedDetails
        /\ LET sig == MarkerSet(lower(result.text))
               same == {p \in ResponsesBySignature :
                            p[1] = endpoint /\ p[2] = sig}
           IN  /\ Cardinality({p[3] : p \in same}) = 1
               /\ outcome.type = "HTTPException" => \A p \in same : p[3] = resp

C9_Unclassified ==
    /\ pc = "done"
    /\ endpoint \in Mutating
    /\ result.type = "error"
    /\ Len(result.text) > 1
    /\ \A k \in 1..Len(Markers) : ~MarkerSet(lower(result.text))[k]
    /\ resp = [status |-> 500, detail |-> <<"Internal server error">>]

====
